---- MODULE Spec2Model ----
(***************************************************************************)
(* Model of the DoH proxy's racing dispatcher (src/app/layout.tsx):        *)
(* raceUpstreams with its hedge timers, its safety timer, the per-launch   *)
(* abort controllers, the `settled` flag, the promise returned to the      *)
(* caller, and the regional latency table written by updateLatency.        *)
(*                                                                         *)
(* Time is the event loop's clock in ms.  The clock never passes a timer   *)
(* that is due and has not run, nor a promise reaction (microtask) that is *)
(* pending: timers and reactions run at the instant they become ready.     *)
(*                                                                         *)
(* Spec, FairSpec and DirectSpec run one dispatch; SharedSpec adds other   *)
(* requests that write the same table; ConfigSpec calls parseUpstreams and *)
(* its normalization on character strings; TableSpec calls preferByLatency *)
(* and updateLatency on any table; ServerSpec runs the GET, POST and       *)
(* OPTIONS handlers in front of the dispatch.                              *)
(***************************************************************************)
EXTENDS Integers, Sequences, FiniteSets

\* ---------------------------------------------------------------- bounds
\* Longest upstream list handed to the dispatcher.
MaxUpstreams == 2
\* Largest amount by which the clock advances in one step (it stops earlier
\* at the next timer deadline).
TickMs == 1000
\* Latency already recorded by an earlier request, when there is one.
PriorMs == 40

\* ------------------------------------------------------ program constants
EMA_ALPHA_NUM == 3
EMA_ALPHA_DEN == 10
HEDGE_DELAY_MS == 35
SAFETY_MS == 3000

DEFAULT_UPSTREAMS ==
  << "cloudflare-dns.com", "dns.google", "dns.quad9.net",
     "doh.opendns.com", "dns.adguard.com", "rubyfish.cn" >>

Regions == {"GLOBAL"}

DNS_MESSAGE == "application/dns-message"
TEXT_PLAIN == "text/plain; charset=utf-8"
\* headers.get('content-type') of a response without that header (null) or
\* with an empty one (''): both are falsy and neither includes anything.
NO_CT == ""
ContentTypes == {DNS_MESSAGE, NO_CT, "text/html"}


VARIABLES
  regionalLatencyMs, \* region -> (upstream -> latency), defined where observed
  upstreams,         \* the ordered list handed to raceUpstreams
  regionKey,         \* the region of the request
  controllers,       \* idx -> TRUE iff controllers[idx].abort() was called
  startTimes,        \* idx -> performance.now() at makeFetch(idx), 0 before
  schedule,          \* idx -> state of the promise schedule[idx]
  settled,           \* the flag of line 123
  response,          \* the promise returned to the caller: None while pending
  reactions,         \* idx's whose then-callback (line 142) is queued, in run order
  safetyFired,       \* the safety timer's callback has run
  now,               \* the clock, ms since dispatcher entry
  handled,           \* history: idx's in the order their reactions ran
  updates,           \* history: idx's for which updateLatency was called
  others,            \* the other requests in flight that share the table
  call               \* the handler or function call under examination

\* The state of one raceUpstreams dispatch and the table it writes.
dispatch == << regionalLatencyMs, upstreams, regionKey, controllers,
               startTimes, schedule, reactions, settled, response,
               safetyFired, now, handled, updates >>

vars == << regionalLatencyMs, upstreams, regionKey, controllers, startTimes,
           schedule, reactions, settled, response, safetyFired, now, handled,
           updates, others, call >>

N == Len(upstreams)
Idx == 0 .. (N - 1)

Min(a, b) == IF a <= b THEN a ELSE b

\* ------------------------------------------------------- latency table
\* A latency is the exact rational num/den (the EMA leaves the integers).
Lat(ms) == [num |-> ms, den |-> 1]

HasTable(table, region) == region \in DOMAIN table
HasEntry(table, region, u) ==
  HasTable(table, region) /\ u \in DOMAIN table[region]

\* a < b with a missing entry read as 0 (`?? 0`).
LatLessMissingZero(table, region, a, b) ==
  LET Val(u) == IF HasEntry(table, region, u) THEN table[region][u] ELSE Lat(0)
  IN  Val(a).num * Val(b).den < Val(b).num * Val(a).den

\* a < b on latencies; a missing entry is +Infinity.
LatLess(table, region, a, b) ==
  /\ HasEntry(table, region, a)
  /\ \/ ~HasEntry(table, region, b)
     \/ table[region][a].num * table[region][b].den
          < table[region][b].num * table[region][a].den

\* Array.prototype.sort is stable: insert each element after every element
\* that does not compare greater than it.
RECURSIVE InsertSorted(_, _, _, _)
InsertSorted(table, region, s, x) ==
  IF s = << >> THEN << x >>
  ELSE IF LatLess(table, region, x, s[Len(s)])
       THEN Append(InsertSorted(table, region, SubSeq(s, 1, Len(s) - 1), x), s[Len(s)])
       ELSE Append(s, x)

RECURSIVE SortByLatency(_, _, _)
SortByLatency(table, region, s) ==
  IF s = << >> THEN << >>
  ELSE InsertSorted(table, region,
                    SortByLatency(table, region, SubSeq(s, 1, Len(s) - 1)),
                    s[Len(s)])

preferByLatency(table, region, ups) ==
  IF ~HasTable(table, region) THEN ups
  ELSE SortByLatency(table, region, ups)

\* The list sorted again, by the table as it is when the launch runs.
UpstreamResorted(idx) ==
  preferByLatency(regionalLatencyMs, regionKey, upstreams)[idx + 1]

\* upstreams[idx] (lines 109, 149, 160): the list as it was handed over.
Upstream(idx) == upstreams[idx + 1]

\* prev + EMA_ALPHA * (observedMs - prev), exactly.
Ema(prev, observedMs) ==
  [num |-> (EMA_ALPHA_DEN - EMA_ALPHA_NUM) * prev.num
             + EMA_ALPHA_NUM * observedMs * prev.den,
   den |-> EMA_ALPHA_DEN * prev.den]

\* One table shared by all regions: the observation lands in every region
\* that has a table, and in `region`.
updateLatencyAllRegions(table, region, u, observedMs) ==
  [r \in DOMAIN table \cup {region} |->
     LET t == IF HasTable(table, r) THEN table[r] ELSE << >>
         next == IF u \in DOMAIN t THEN Ema(t[u], observedMs) ELSE Lat(observedMs)
     IN  [x \in DOMAIN t \cup {u} |-> IF x = u THEN next ELSE t[x]]]

updateLatency(table, region, u, observedMs) ==
  LET t == IF HasTable(table, region) THEN table[region] ELSE << >>
      next == IF u \in DOMAIN t THEN Ema(t[u], observedMs) ELSE Lat(observedMs)
      t2 == [x \in DOMAIN t \cup {u} |-> IF x = u THEN next ELSE t[x]]
  IN  [r \in DOMAIN table \cup {region} |-> IF r = region THEN t2 ELSE table[r]]

\* With DOH_UPSTREAMS set to n URLs (here: the first n names).
parseUpstreams(n) == SubSeq(DEFAULT_UPSTREAMS, 1, n)

\* -------------------------------------------------------------- responses
\* What fetch() of launch idx can resolve to; the body stands for the bytes
\* that upstream sent.  (A 204 without content type is the case the comment of
\* line 158 names.)
UpstreamResponses(idx) ==
  { [status |-> s, ct |-> c, body |-> Upstream(idx)] :
      s \in {200, 500}, c \in ContentTypes }
  \cup { [status |-> 204, ct |-> NO_CT, body |-> Upstream(idx)] }

\* The synthetic response of the catch handler (line 133).
TransportFailure == [status |-> 599, ct |-> NO_CT, body |-> "null"]

Ok(res) == res.status >= 200 /\ res.status <= 299
okContentType(res) == res.ct = DNS_MESSAGE

\* The caller's promise while it is pending.
None == [status |-> -1, ct |-> NO_CT, body |-> "pending", by |-> -1]

NoRes == [status |-> -1, ct |-> NO_CT, body |-> "none"]
\* schedule[idx]: "scheduled" (hedge timer not run), "inflight" (fetch
\* pending), "resolved" (promise resolved with res at time at, its reaction
\* pending), "handled" (the reaction of lines 142-175 has run).
\* url is the upstream the fetch was issued to ("" before the launch).
Scheduled == [phase |-> "scheduled", res |-> NoRes, at |-> -1, url |-> ""]

\* No other request in flight; no call under examination.
NoOthers == << >>
NoCall == [fn |-> "none"]

\* ------------------------------------------------------------------ Init
\* Dispatcher entry from GET/POST (lines 207-209, 228-230): the list is
\* parseUpstreams() ordered by preferByLatency; the table is empty (process
\* start) or holds one observation of an earlier request.
InitialTables(n) ==
  { << >> } \cup
  { [r \in {"GLOBAL"} |-> [u \in {DEFAULT_UPSTREAMS[n]} |-> Lat(PriorMs)]] }

\* The state right after raceUpstreams(req, method, ups, r, ...) has run its
\* synchronous part (lines 105-138, 140-141, 181), with the table as it is.
Entered(table, r, ups) ==
  /\ regionalLatencyMs = table
  /\ regionKey = r
  /\ upstreams = ups
  /\ controllers = [i \in 0 .. (Len(ups) - 1) |-> FALSE]
  /\ startTimes = [i \in 0 .. (Len(ups) - 1) |-> 0]
  /\ schedule = [i \in 0 .. (Len(ups) - 1) |-> Scheduled]
  /\ reactions = << >>
  /\ settled = FALSE
  /\ response = None
  /\ safetyFired = FALSE
  /\ now = 0
  /\ handled = << >>
  /\ updates = << >>

Init ==
  \E n \in 1 .. MaxUpstreams : \E table \in InitialTables(n), r \in Regions :
    /\ Entered(table, r, preferByLatency(table, r, parseUpstreams(n)))
    /\ others = NoOthers
    /\ call = NoCall

\* ------------------------------------------------------------ event loop
ReactionPending == reactions # << >>

\* Due times of the timers that have not run.
Deadlines ==
  { i * HEDGE_DELAY_MS : i \in { j \in Idx : schedule[j].phase = "scheduled" } }
  \cup (IF safetyFired THEN {} ELSE {SAFETY_MS})

MinOf(S) == CHOOSE x \in S : \A y \in S : x <= y

\* Time passes: only when nothing is ready to run, and not past a deadline.
Tick ==
  /\ ~ReactionPending
  /\ \A d \in Deadlines : d > now
  /\ now <= SAFETY_MS
  /\ now' = IF Deadlines = {} THEN now + TickMs
            ELSE Min(now + TickMs, MinOf(Deadlines))
  /\ UNCHANGED << regionalLatencyMs, upstreams, regionKey, controllers,
                  startTimes, schedule, reactions, settled, response,
                  safetyFired, handled, updates, others, call >>

\* ------------------------------------------------------------- launches
\* The hedge timer of launch idx (lines 130-135) runs makeFetch(idx)
\* (lines 108-121): the start time is recorded and the fetch issued.
Launch(idx) ==
  /\ schedule[idx].phase = "scheduled"
  /\ now >= idx * HEDGE_DELAY_MS
  /\ ~ReactionPending
  /\ startTimes' = [startTimes EXCEPT ![idx] = now]
  /\ schedule' = [schedule EXCEPT ![idx].phase = "inflight",
                                  ![idx].url = Upstream(idx)]
  /\ UNCHANGED << regionalLatencyMs, upstreams, regionKey, controllers,
                  reactions, settled, response, safetyFired, now, handled,
                  updates, others, call >>

\* What the fetch of launch idx can settle to: any upstream response, or a
\* rejection turned into the 599 response; once its signal is aborted the
\* fetch can only reject.
Outcomes(idx) ==
  IF controllers[idx] THEN {TransportFailure}
  ELSE UpstreamResponses(idx) \cup {TransportFailure}

\* The queue of then-callbacks after launch idx settled with res.  Callbacks
\* run in the order their promises resolved, except that a rejected fetch
\* reaches resolve() one promise hop later (the catch of line 131) than a
\* fulfilled one: a fulfilled launch goes before the rejected ones that are
\* still queued.
Enqueue(q, idx, res) ==
  LET Rejected(i) == schedule[i].res = TransportFailure
      Fulfilled(i) == ~Rejected(i)
  IN  IF res = TransportFailure THEN Append(q, idx)
      ELSE SelectSeq(q, Fulfilled) \o << idx >> \o SelectSeq(q, Rejected)

\* fetch(url, init) settles and schedule[idx] resolves (lines 120, 131-134).
Settle(idx, res) ==
  /\ schedule[idx].phase = "inflight"
  /\ res \in Outcomes(idx)
  /\ schedule' = [schedule EXCEPT ![idx].phase = "resolved",
                                  ![idx].res = res, ![idx].at = now]
  /\ reactions' = Enqueue(reactions, idx, res)
  /\ UNCHANGED << regionalLatencyMs, upstreams, regionKey, controllers,
                  startTimes, settled, response, safetyFired, now, handled,
                  updates, others, call >>

\* --------------------------------------------------------- the reaction
\* The guard left out: every reaction goes on to inspect its outcome.
GuardDropped == FALSE

\* `if (settled) return` (line 143).
AlreadySettled == settled

\* First branch (line 146): res.ok with the DoH content type.
GoodDoh(res) == Ok(res) /\ okContentType(res)

\* Second branch (line 157): 2xx and !okContentType.
TwoXxOtherType(res) ==
  res.status >= 200 /\ res.status < 300 /\ ~okContentType(res)

\* `idx === upstreams.length - 1` (line 169).
IsLastLaunch(idx) == idx = N - 1

\* Only the launches whose fetch was already issued are aborted.
AbortOthersLaunched(idx) ==
  [j \in Idx |-> controllers[j] \/ (j # idx /\ schedule[j].phase # "scheduled")]

\* controllers.forEach((c, j) => { if (j !== idx) c.abort() }) (151, 162).
AbortOthers(idx) == [j \in Idx |-> controllers[j] \/ j # idx]

\* The timeout answers the client but aborts nothing.
AbortNothing == controllers

\* controllers.forEach(c => c.abort()) (line 183).
AbortAll == [j \in Idx |-> TRUE]

\* A response channel on which a later call replaces the earlier response.
ResolveOverwrites(r) == r

\* resolve(r) of the promise of line 140: only the first call has an effect.
Resolve(r) == IF response = None THEN r ELSE response

\* The responses built at lines 152-156, 163-166 and 172-173.
WinnerResponse(idx, res) ==
  [status |-> res.status,
   ct |-> IF res.ct = NO_CT THEN DNS_MESSAGE ELSE res.ct,
   body |-> res.body, by |-> idx]

ForcedTypeResponse(idx, res) ==
  [status |-> res.status, ct |-> DNS_MESSAGE, body |-> res.body, by |-> idx]

FallbackResponse(idx, res) ==
  [status |-> IF res.status = 0 THEN 502 ELSE res.status,
   ct |-> res.ct, body |-> res.body, by |-> idx]

\* Lines 184-186.
TimeoutResponse ==
  [status |-> 504, ct |-> TEXT_PLAIN, body |-> "Upstream timeout", by |-> -1]

\* Lines 147-151 and 159-162: the flag, the observation, the aborts.
Win(idx, r) ==
  /\ settled' = TRUE
  /\ regionalLatencyMs' =
       updateLatency(regionalLatencyMs, regionKey, Upstream(idx),
                     now - startTimes[idx])
  /\ updates' = Append(updates, idx)
  /\ controllers' = AbortOthers(idx)
  /\ response' = Resolve(r)

\* The then-callback of schedule[idx] (lines 142-175).
Handle(idx) ==
  /\ reactions # << >>
  /\ idx = Head(reactions)
  /\ reactions' = Tail(reactions)
  /\ schedule' = [schedule EXCEPT ![idx].phase = "handled"]
  /\ handled' = Append(handled, idx)
  /\ LET res == schedule[idx].res IN
       IF AlreadySettled THEN
         UNCHANGED << regionalLatencyMs, controllers, settled, response, updates >>
       ELSE IF GoodDoh(res) THEN Win(idx, WinnerResponse(idx, res))
       ELSE IF TwoXxOtherType(res) THEN Win(idx, ForcedTypeResponse(idx, res))
       ELSE IF IsLastLaunch(idx) THEN
         /\ response' = Resolve(FallbackResponse(idx, res))
         /\ UNCHANGED << regionalLatencyMs, controllers, settled, updates >>
       ELSE
         UNCHANGED << regionalLatencyMs, controllers, settled, response, updates >>
  /\ UNCHANGED << upstreams, regionKey, startTimes, safetyFired, now,
                  others, call >>

\* --------------------------------------------------------- safety timer
\* The test inverted: `if (settled)`.
TimeoutInverted == settled

\* `if (!settled)` (line 182).
TimeoutApplies == ~settled

\* The callback of the safety timer (lines 181-188).
SafetyTimeout ==
  /\ ~safetyFired
  /\ now >= SAFETY_MS
  /\ ~ReactionPending
  /\ safetyFired' = TRUE
  /\ IF TimeoutApplies
     THEN /\ controllers' = AbortAll
          /\ response' = Resolve(TimeoutResponse)
     ELSE UNCHANGED << controllers, response >>
  /\ UNCHANGED << regionalLatencyMs, upstreams, regionKey, startTimes,
                  schedule, reactions, settled, now, handled, updates,
                  others, call >>

Next ==
  \/ Tick
  \/ \E idx \in Idx : Launch(idx)
  \/ \E idx \in Idx : \E res \in Outcomes(idx) : Settle(idx, res)
  \/ \E idx \in Idx : Handle(idx)
  \/ SafetyTimeout

Spec == Init /\ [][Next]_vars

\* The event loop runs every ready timer and reaction, and the clock advances;
\* nothing obliges an upstream to answer.
FairSpec ==
  /\ Spec
  /\ WF_vars(Tick)
  /\ WF_vars(\E idx \in Idx : Launch(idx))
  /\ WF_vars(\E idx \in Idx : Handle(idx))
  /\ WF_vars(SafetyTimeout)

\* ------------------------------------------- raceUpstreams on any list
\* raceUpstreams entered with any list, the empty one included (nothing in
\* lines 97-190 requires upstreams.length > 0).
DirectInit ==
  \E n \in 0 .. MaxUpstreams :
    \E table \in (IF n = 0 THEN { << >> } ELSE InitialTables(n)), r \in Regions :
      /\ Entered(table, r, preferByLatency(table, r, parseUpstreams(n)))
      /\ others = NoOthers
      /\ call = NoCall

DirectSpec == DirectInit /\ [][Next]_vars

\* ======================================================== the claims
Handled(i) == schedule[i].phase = "handled"
HasSettled(i) == schedule[i].phase \in {"resolved", "handled"}
Returned == response # None
\* Acceptable as the specification defines it: 2xx, and the content type
\* includes application/dns-message or is absent/empty.
AcceptablePerSpec(res) == Ok(res) /\ res.ct \in {DNS_MESSAGE, NO_CT}

\* C1: the client receives at most one response: once the caller's promise
\* holds a response no later outcome, fallback or timeout replaces it, and at
\* most one outcome is ever selected as the winner.
C1_SingleResponse ==
  /\ [][Returned => response' = response]_vars
  /\ [](Len(updates) <= 1)

\* C1 witness: a response was returned and an acceptable outcome of another
\* launch was handled after it.
C1_Witness ==
  /\ Returned
  /\ Len(handled) >= 2
  /\ response.by = handled[1]
  /\ Handled(handled[2]) /\ GoodDoh(schedule[handled[2]].res)

\* C2: every dispatch eventually returns a response, and has returned it once
\* more than SAFETY_MS have elapsed, whatever the upstreams do.
C2_AlwaysResponds ==
  /\ <>Returned
  /\ [](now > SAFETY_MS => Returned)

\* C2 witness: past the safety timeout, with one launch that failed at
\* transport level and one that never settled, the client has its response.
C2_Witness ==
  /\ now > SAFETY_MS
  /\ Returned
  /\ \E i, j \in Idx : /\ Handled(i) /\ schedule[i].res = TransportFailure
                       /\ schedule[j].phase = "inflight"

\* C3 (as claimed): if a launch settled with a 2xx application/dns-message
\* response before SAFETY_MS, the client's response is a 2xx response.
C3_Claim ==
  \A i \in Idx :
    (Handled(i) /\ GoodDoh(schedule[i].res) /\ schedule[i].at < SAFETY_MS)
      => (Returned /\ Ok(response))

\* C4: one dispatch calls updateLatency at most once.
C4_AtMostOneUpdate == Len(updates) <= 1

\* C4 witness: two launches settled with acceptable outcomes, both were
\* handled, and one observation was recorded.
C4_Witness ==
  /\ Len(updates) = 1
  /\ \E i, j \in Idx : /\ i # j
                       /\ Handled(i) /\ GoodDoh(schedule[i].res)
                       /\ Handled(j) /\ GoodDoh(schedule[j].res)

\* C5 (as claimed): every launch that contributed an observation is the launch
\* whose response was returned to the client.
C5_Claim == \A k \in 1 .. Len(updates) : response.by = updates[k]

\* C6 (as claimed): every launch that won (set the flag, recorded an
\* observation, aborted the others) had an outcome acceptable per the
\* specification: a 2xx with a foreign content type never wins.
C6_Claim ==
  \A k \in 1 .. Len(updates) : AcceptablePerSpec(schedule[updates[k]].res)

\* C7 (as claimed): when an unacceptable outcome (non-2xx or 599) becomes the
\* client's response, every launch has settled.
C7_Claim ==
  [][(~Returned /\ response' # None /\ response'.by # -1 /\ ~Ok(response'))
       => (\A j \in Idx : HasSettled(j))']_vars

\* C8: when the safety timer runs and no response has been returned, it
\* aborts every launch and the client receives 504 'Upstream timeout'; and the
\* timer has run once more than SAFETY_MS have elapsed.
C8_TimeoutAborts ==
  /\ [][(~safetyFired /\ safetyFired' /\ ~Returned)
          => /\ response' = TimeoutResponse
             /\ \A j \in Idx : controllers'[j]]_vars
  /\ [](now > SAFETY_MS => safetyFired)

\* C8 witness: the timeout answered the client after a launch had settled
\* unacceptably, and every launch is aborted.
C8_Witness ==
  /\ safetyFired
  /\ response = TimeoutResponse
  /\ \A j \in Idx : controllers[j]
  /\ \E i \in Idx : /\ Handled(i) /\ ~Ok(schedule[i].res)
                    /\ schedule[i].at < SAFETY_MS

\* C9: the step in which an outcome wins aborts every other launch, launched
\* or not; and once the flag is set nothing changes the client's response or
\* the latency table.
C9_WinAbortsOthers ==
  /\ [][(~settled /\ settled')
          => \E i \in Idx : /\ handled' = Append(handled, i)
                            /\ \A j \in Idx \ {i} : controllers'[j]]_vars
  /\ [][settled => /\ settled'
                   /\ response' = response
                   /\ regionalLatencyMs' = regionalLatencyMs]_vars

\* C9 witness: a launch aborted before its hedge delay elapsed was launched
\* after the win, and its outcome was handled and ignored.
C9_Witness ==
  /\ settled
  /\ Len(updates) = 1
  /\ \E j \in Idx : /\ j # updates[1]
                    /\ controllers[j]
                    /\ Handled(j)
                    /\ startTimes[j] > schedule[updates[1]].at

\* C10 (as claimed): when every launch has settled unacceptably before
\* SAFETY_MS, the client's response is the last outcome with its status
\* passed through (502 for 0), and no observation was recorded.
C10_Claim ==
  (/\ Len(handled) = N
   /\ \A i \in Idx : Handled(i) /\ ~Ok(schedule[i].res)
                       /\ schedule[i].at < SAFETY_MS)
    => /\ response = FallbackResponse(handled[N], schedule[handled[N]].res)
       /\ updates = << >>

\* C19 (as claimed): entered with an empty list, the dispatcher has returned
\* 504 as soon as any time has passed, without waiting for the safety timer.
C19_Claim == (N = 0 /\ now > 0) => response = TimeoutResponse

\* C20 (as claimed): the controller of the launch whose response was returned
\* to the client is never aborted.
C20_Claim ==
  (Returned /\ response.by # -1) => ~controllers[response.by]

\* ------------------------------------ other requests sharing the table
\* The other requests of the process run raceUpstreams on the same module
\* level table (line 20).  Of such a request only its effect on the table
\* matters here: the reaction of its winning launch calls updateLatency
\* (lines 149, 160) with its own upstream and duration.
MaxOthers == 1
\* The duration another request observes.
OtherMs == 10

\* A request that entered when the table was `table` and has not won yet.
Racing(table) ==
  [phase |-> "racing", seen |-> table, u |-> "", ms |-> 0, before |-> {}]

SharedInit ==
  \E n \in 1 .. MaxUpstreams : \E table \in InitialTables(n), r \in Regions :
    /\ Entered(table, r, preferByLatency(table, r, parseUpstreams(n)))
    /\ others = [q \in 1 .. MaxOthers |-> Racing(table)]
    /\ call = NoCall

\* The table as request q saw it when it entered: an update computed from a
\* value read earlier than the write.
PriorTableAtEntry(q) == others[q].seen

\* `table.get(upstream)` (line 63) runs in the same synchronous call as
\* `table.set` (lines 65, 67): the prior value is the current one.
PriorTable(q) == regionalLatencyMs

Launched == { i \in Idx : schedule[i].phase # "scheduled" }

\* The winning reaction of request q records ms for upstream u (lines
\* 147-149 run for another request); `before` keeps which launches of the
\* dispatch under examination had started by then.
OtherWins(q, u, ms) ==
  /\ others[q].phase = "racing"
  /\ regionalLatencyMs' = updateLatency(PriorTable(q), regionKey, u, ms)
  /\ others' = [others EXCEPT ![q].phase = "done", ![q].u = u, ![q].ms = ms,
                              ![q].before = Launched]
  /\ UNCHANGED << upstreams, regionKey, controllers, startTimes, schedule,
                  reactions, settled, response, safetyFired, now, handled,
                  updates, call >>

SharedNext ==
  \/ Next
  \/ \E q \in DOMAIN others : \E u \in { upstreams[k] : k \in DOMAIN upstreams } :
       OtherWins(q, u, OtherMs)

SharedSpec == SharedInit /\ [][SharedNext]_vars

\* C18: launches start in the order of the list handed to the dispatcher:
\* launch i is issued to upstreams[i], no earlier than i * HEDGE_DELAY_MS
\* after entry and not before launch i-1; the list is never reordered, also
\* not when other requests update the table while the dispatch is in flight.
C18_LaunchOrder ==
  /\ [](\A i \in Launched :
          /\ schedule[i].url = upstreams[i + 1]
          /\ startTimes[i] >= i * HEDGE_DELAY_MS
          /\ i > 0 => /\ (i - 1) \in Launched
                      /\ startTimes[i - 1] <= startTimes[i])
  /\ [][upstreams' = upstreams]_vars

\* C18 witness: another request recorded an observation that makes
\* preferByLatency order the list differently, and a launch that had not
\* started by then has started since.
C18_Witness ==
  \E q \in DOMAIN others :
    /\ others[q].phase = "done"
    /\ updates = << >>
    /\ preferByLatency(regionalLatencyMs, regionKey, upstreams) # upstreams
    /\ \E i \in Launched \ others[q].before : startTimes[i] > 0

\* ---------------------------------------------- C15: atomic updates
\* The observations recorded so far: those of the other requests and that
\* of the dispatch under examination (duration: settle time - start time).
Observations ==
  { [by |-> q, u |-> others[q].u, ms |-> others[q].ms] :
      q \in { x \in DOMAIN others : others[x].phase = "done" } }
  \cup { [by |-> 0, u |-> upstreams[updates[k] + 1],
          ms |-> schedule[updates[k]].at - startTimes[updates[k]]] :
           k \in DOMAIN updates }

\* Every order in which the observations of S can be applied.
Orders(S) ==
  { o \in [1 .. Cardinality(S) -> S] :
      \A a, b \in 1 .. Cardinality(S) : a # b => o[a] # o[b] }

\* The table after applying the observations of o one after another.
RECURSIVE Replay(_, _)
Replay(table, o) ==
  IF o = << >> THEN table
  ELSE Replay(updateLatency(table, regionKey, o[1].u, o[1].ms), Tail(o))

\* C15: the table always equals the table at entry with all recorded
\* observations applied one after another in some order.
C15_AtomicUpdates ==
  \E o \in Orders(Observations) :
    regionalLatencyMs = Replay(others[1].seen, o)

\* C15 witness: another request and this dispatch were both won by the
\* same upstream, which already had an entry, and both are recorded.
C15_Witness ==
  /\ Len(updates) = 1
  /\ \E q \in DOMAIN others :
       /\ others[q].phase = "done"
       /\ others[q].u = upstreams[updates[1] + 1]
       /\ HasEntry(others[q].seen, regionKey, others[q].u)
       /\ schedule[updates[1]].at - startTimes[updates[1]] # others[q].ms

\* ------------------------------------------------- the upstream list
\* DOH_UPSTREAMS and the URLs are sequences of characters.
MaxChunks == 3

DnsQueryPath == << "/", "d", "n", "s", "-", "q", "u", "e", "r", "y" >>
\* \s of the regular expression and of trim(): blank, newline, tab.
Whitespace == { " ", "\n", "\t" }
\* [,\n\s] (line 36).
Separators == { "," } \cup Whitespace

\* The default list, each URL with its host as one character.
DefaultUrls == [k \in DOMAIN DEFAULT_UPSTREAMS |->
                  << DEFAULT_UPSTREAMS[k] >> \o DnsQueryPath]

RECURSIVE TrimStart(_)
TrimStart(s) ==
  IF s # << >> /\ s[1] \in Whitespace THEN TrimStart(Tail(s)) ELSE s

RECURSIVE TrimEnd(_)
TrimEnd(s) ==
  IF s # << >> /\ s[Len(s)] \in Whitespace
  THEN TrimEnd(SubSeq(s, 1, Len(s) - 1)) ELSE s

\* String.prototype.trim.
Trim(s) == TrimEnd(TrimStart(s))

\* u.endsWith(suffix) and u.includes(c).
EndsWith(u, suffix) ==
  /\ Len(u) >= Len(suffix)
  /\ SubSeq(u, Len(u) - Len(suffix) + 1, Len(u)) = suffix
Includes(u, c) == \E i \in DOMAIN u : u[i] = c

\* u.replace(/\/$/, '').
StripSlash(u) ==
  IF u # << >> /\ u[Len(u)] = "/" THEN SubSeq(u, 1, Len(u) - 1) ELSE u

\* '/dns-query' appended whatever the token ends with.
normalizeAlways(u) == StripSlash(u) \o DnsQueryPath

\* The last map of parseUpstreams (line 39).
normalize(u) ==
  IF EndsWith(u, DnsQueryPath) \/ Includes(u, "?") THEN u
  ELSE StripSlash(u) \o DnsQueryPath

\* s.split(/[,\n\s]+/): a run of separators ends a token; a separator at
\* the start or at the end leaves an empty token there.
RECURSIVE SplitFrom(_, _, _, _, _)
SplitFrom(s, i, cur, inSep, acc) ==
  IF i > Len(s) THEN Append(acc, cur)
  ELSE IF s[i] \in Separators
       THEN IF inSep THEN SplitFrom(s, i + 1, cur, TRUE, acc)
            ELSE SplitFrom(s, i + 1, << >>, TRUE, Append(acc, cur))
       ELSE SplitFrom(s, i + 1, Append(cur, s[i]), FALSE, acc)

Split(s) == SplitFrom(s, 1, << >>, FALSE, << >>)

\* parseUpstreams() with process.env.DOH_UPSTREAMS = e.value when e.set,
\* and unset otherwise (lines 32-40).
parseEnv(e) ==
  LET env == Trim(IF e.set THEN e.value ELSE << >>)
      NonEmpty(t) == t # << >>
  IN  IF env = << >> THEN DefaultUrls
      ELSE LET tokens == Split(env)
               trimmed == [k \in DOMAIN tokens |-> Trim(tokens[k])]
               kept == SelectSeq(trimmed, NonEmpty)
           IN  [k \in DOMAIN kept |-> normalize(kept[k])]

\* Every concatenation of at most k of the chunks.
RECURSIVE Strings(_, _)
Strings(chunks, k) ==
  IF k = 0 THEN { << >> }
  ELSE LET shorter == Strings(chunks, k - 1)
       IN  shorter \cup { s \o c : s \in shorter, c \in chunks }

TokenChunks ==
  { << "h" >>, << "/" >>, << "?" >>, DnsQueryPath, Tail(DnsQueryPath) }
EnvChunks == TokenChunks \cup { << "," >>, << " " >>, << "\n" >> }

\* The values of DOH_UPSTREAMS, unset included.
Envs ==
  { [set |-> FALSE, value |-> << >>] }
  \cup { [set |-> TRUE, value |-> v] : v \in Strings(EnvChunks, MaxChunks) }
\* The tokens that reach the last map: not empty, no separator.
Tokens == Strings(TokenChunks, MaxChunks) \ { << >> }

\* No request in the process: nothing scheduled, the table empty.
Idle == Entered(<< >>, "GLOBAL", << >>)

ConfigInit ==
  /\ Idle
  /\ others = NoOthers
  /\ \/ \E e \in Envs :
          call = [fn |-> "parseUpstreams", arg |-> e, done |-> FALSE,
                  out |-> << >>]
     \/ \E u \in Tokens :
          call = [fn |-> "normalize", arg |-> u, done |-> FALSE,
                  out |-> << >>]

\* parseUpstreams() is called (lines 208, 229).
ParseUpstreamsCall ==
  /\ call.fn = "parseUpstreams" /\ ~call.done
  /\ call' = [call EXCEPT !.done = TRUE, !.out = parseEnv(call.arg)]
  /\ UNCHANGED << dispatch, others >>

\* The normalization is applied to a token.
NormalizeCall ==
  /\ call.fn = "normalize" /\ ~call.done
  /\ call' = [call EXCEPT !.done = TRUE, !.out = normalize(call.arg)]
  /\ UNCHANGED << dispatch, others >>

ConfigNext == ParseUpstreamsCall \/ NormalizeCall

ConfigSpec == ConfigInit /\ [][ConfigNext]_vars

\* C16 (as claimed): parseUpstreams never returns an empty list, and it
\* returns the default list whenever DOH_UPSTREAMS is unset or holds nothing
\* but separators.
C16_Claim ==
  (call.fn = "parseUpstreams" /\ call.done)
    => /\ call.out # << >>
       /\ (\A i \in DOMAIN call.arg.value : call.arg.value[i] \in Separators)
            => call.out = DefaultUrls

\* C17: normalizing a normalized token gives the same token.
C17_Idempotent ==
  (call.fn = "normalize" /\ call.done) => normalize(call.out) = call.out

\* C17 witness: a token with a trailing slash was normalized: the slash is
\* gone and '/dns-query' is there.
C17_Witness ==
  /\ call.fn = "normalize" /\ call.done
  /\ EndsWith(call.arg, << "/" >>)
  /\ call.out = StripSlash(call.arg) \o DnsQueryPath

\* ------------------------------------------------ the latency table
\* preferByLatency and updateLatency called on any table the process can
\* hold: per region no table, or a table with at least one entry.
MaxList == 3
FastMs == 10
SlowMs == 20
SpikeMs == 100
\* A negative observation: the size of a step back of the clock.
BackwardMs == 5
NegativeMs == 0 - BackwardMs

TableRegions == { "DE", "US" }
Names == { DEFAULT_UPSTREAMS[k] : k \in 1 .. MaxList }

\* The tables of one region: no table, or some upstreams observed.
RegionTables ==
  UNION { [D -> { Lat(FastMs), Lat(SlowMs) }] : D \in SUBSET Names }

Tables ==
  UNION { [R -> RegionTables \ { << >> }] : R \in SUBSET TableRegions }

\* The upstream lists: no URL twice.
Lists ==
  { l \in UNION { [1 .. k -> Names] : k \in 0 .. MaxList } :
      \A i, j \in DOMAIN l : i # j => l[i] # l[j] }

TableInit ==
  \E table \in Tables :
    /\ Entered(table, "GLOBAL", << >>)
    /\ others = NoOthers
    /\ call = NoCall

\* preferByLatency(r, ups) is called: `after` is the caller's array after
\* the call (only the copy made by slice() is sorted).
PreferByLatencyCall(r, ups) ==
  /\ call = NoCall
  /\ call' = [fn |-> "preferByLatency", region |-> r, arg |-> ups,
              after |-> ups,
              out |-> preferByLatency(regionalLatencyMs, r, ups)]
  /\ UNCHANGED << dispatch, others >>

\* updateLatency(r, u, ms) is called; `before` keeps the table before it.
UpdateLatencyCall(r, u, ms) ==
  /\ call = NoCall
  /\ regionalLatencyMs' = updateLatency(regionalLatencyMs, r, u, ms)
  /\ call' = [fn |-> "updateLatency", region |-> r, u |-> u, ms |-> ms,
              before |-> regionalLatencyMs]
  /\ UNCHANGED << upstreams, regionKey, controllers, startTimes, schedule,
                  reactions, settled, response, safetyFired, now, handled,
                  updates, others >>

TableNext ==
  \/ \E r \in TableRegions, ups \in Lists : PreferByLatencyCall(r, ups)
  \/ \E r \in TableRegions, u \in Names, ms \in { NegativeMs, SpikeMs } :
       UpdateLatencyCall(r, u, ms)

TableSpec == TableInit /\ [][TableNext]_vars

\* Position of x in the list l (x occurs once).
Pos(l, x) == CHOOSE i \in DOMAIN l : l[i] = x
Known(r, x) == HasEntry(regionalLatencyMs, r, x)
\* The recorded latency of a is smaller than that of b, both recorded.
Smaller(r, a, b) ==
  /\ Known(r, a) /\ Known(r, b)
  /\ regionalLatencyMs[r][a].num * regionalLatencyMs[r][b].den
       < regionalLatencyMs[r][b].num * regionalLatencyMs[r][a].den

\* C12: preferByLatency returns a permutation of its input in ascending
\* order of recorded latency, the unobserved upstreams after the observed
\* ones, ties and unobserved upstreams in their input order, and leaves the
\* caller's list as it was.
C12_StableOrder ==
  call.fn = "preferByLatency" =>
    LET r == call.region
        in == call.arg
        out == call.out
    IN  /\ Len(out) = Len(in)
        /\ { out[i] : i \in DOMAIN out } = { in[i] : i \in DOMAIN in }
        /\ call.after = in
        /\ \A i, j \in DOMAIN out :
             i < j => /\ ~Smaller(r, out[j], out[i])
                      /\ Known(r, out[j]) => Known(r, out[i])
                      /\ (/\ Known(r, out[i]) = Known(r, out[j])
                          /\ ~Smaller(r, out[i], out[j]))
                           => Pos(in, out[i]) < Pos(in, out[j])

\* C12 witness: a list of three that starts with an unobserved upstream,
\* followed by two of equal latency: the result differs from the input.
C12_Witness ==
  /\ call.fn = "preferByLatency"
  /\ Len(call.arg) = 3
  /\ ~Known(call.region, call.arg[1])
  /\ Known(call.region, call.arg[2]) /\ Known(call.region, call.arg[3])
  /\ ~Smaller(call.region, call.arg[2], call.arg[3])
  /\ ~Smaller(call.region, call.arg[3], call.arg[2])
  /\ call.out = << call.arg[2], call.arg[3], call.arg[1] >>

\* C13 (as claimed): updateLatency with a negative observation leaves the
\* table as it was.
C13_Claim ==
  (call.fn = "updateLatency" /\ call.ms < 0)
    => regionalLatencyMs = call.before

\* C14: updateLatency(r, u, ms) changes nothing but the entry (r, u): every
\* other region's table and every other entry of r is as before, and so is
\* the order preferByLatency gives for any other region.
C14_RegionsIndependent ==
  call.fn = "updateLatency" =>
    /\ \A r \in TableRegions \ { call.region } :
         /\ HasTable(regionalLatencyMs, r) = HasTable(call.before, r)
         /\ HasTable(call.before, r) => regionalLatencyMs[r] = call.before[r]
         /\ \A ups \in Lists :
              preferByLatency(regionalLatencyMs, r, ups)
                = preferByLatency(call.before, r, ups)
    /\ \A x \in Names \ { call.u } :
         /\ Known(call.region, x) = HasEntry(call.before, call.region, x)
         /\ Known(call.region, x)
              => regionalLatencyMs[call.region][x] = call.before[call.region][x]

\* C14 witness: an observation changed the order in its own region while
\* another region holds an entry for the same upstream.
C14_Witness ==
  /\ call.fn = "updateLatency"
  /\ \E r \in TableRegions \ { call.region } : Known(r, call.u)
  /\ \E ups \in Lists :
       preferByLatency(regionalLatencyMs, call.region, ups)
         # preferByLatency(call.before, call.region, ups)

\* ------------------------------------------------ the route handlers
\* One request arrives at a process that has served none: GET, POST or
\* OPTIONS (lines 198-237).  The dns parameter is a sequence of characters,
\* the content-type header a sequence of its parts.
MaxDnsLen == 2

\* [A-Za-z0-9_-]: the characters of the regular expression of line 195.
Base64UrlChars == { "A", "z", "0", "_", "-" }
DnsChars == { "A", "-", "+" }

\* url.searchParams.get('dns'): null, or a string.
DnsParams ==
  { [present |-> FALSE, value |-> << >>] }
  \cup { [present |-> TRUE, value |-> v] :
           v \in UNION { [1 .. k -> DnsChars] : k \in 0 .. MaxDnsLen } }

\* req.headers.get('content-type') || '' of a POST.
RequestContentTypes ==
  { << >>, << DNS_MESSAGE >>, << DNS_MESSAGE, "; charset=utf-8" >>,
    << "text/plain" >>, << "application/json" >> }
\* byteLength of the POST body.
BodyLengths == { 0, 1 }

\* Any parameter passes.
validateDnsParamAny(d) == TRUE

\* validateDnsParam (lines 192-196).
validateDnsParam(d) ==
  IF ~d.present \/ d.value = << >> THEN FALSE
  ELSE \A i \in DOMAIN d.value : d.value[i] \in Base64UrlChars

\* The handler's own response, or the hand-over to raceUpstreams.
Rejected(fn, d, ct, len, status) ==
  [fn |-> fn, dns |-> d, ct |-> ct, body |-> len, status |-> status,
   dispatched |-> FALSE]
Accepted(fn, d, ct, len) ==
  [fn |-> fn, dns |-> d, ct |-> ct, body |-> len, status |-> 0,
   dispatched |-> TRUE]

\* Lines 207-209 and 228-230: the region, the list ordered by the table as
\* it is, and the synchronous part of raceUpstreams.
Enter(r, ups) ==
  /\ regionalLatencyMs' = regionalLatencyMs
  /\ regionKey' = r
  /\ upstreams' = ups
  /\ controllers' = [i \in 0 .. (Len(ups) - 1) |-> FALSE]
  /\ startTimes' = [i \in 0 .. (Len(ups) - 1) |-> 0]
  /\ schedule' = [i \in 0 .. (Len(ups) - 1) |-> Scheduled]
  /\ reactions' = << >>
  /\ settled' = FALSE
  /\ response' = None
  /\ safetyFired' = FALSE
  /\ now' = 0
  /\ handled' = << >>
  /\ updates' = << >>

Dispatch ==
  \E n \in 1 .. MaxUpstreams, r \in Regions :
    Enter(r, preferByLatency(regionalLatencyMs, r, parseUpstreams(n)))

NoDns == [present |-> FALSE, value |-> << >>]

GET(d) ==
  /\ call = NoCall
  /\ IF ~validateDnsParam(d)
     THEN /\ call' = Rejected("GET", d, << >>, 0, 400)
          /\ UNCHANGED dispatch
     ELSE /\ call' = Accepted("GET", d, << >>, 0)
          /\ Dispatch
  /\ UNCHANGED others

POST(ct, len) ==
  /\ call = NoCall
  /\ IF ct # << >> /\ ~Includes(ct, DNS_MESSAGE)
     THEN /\ call' = Rejected("POST", NoDns, ct, len, 415)
          /\ UNCHANGED dispatch
     ELSE IF len = 0
     THEN /\ call' = Rejected("POST", NoDns, ct, len, 400)
          /\ UNCHANGED dispatch
     ELSE /\ call' = Accepted("POST", NoDns, ct, len)
          /\ Dispatch
  /\ UNCHANGED others

OPTIONS ==
  /\ call = NoCall
  /\ call' = Rejected("OPTIONS", NoDns, << >>, 0, 204)
  /\ UNCHANGED << dispatch, others >>

\* The dispatch of an accepted request runs as in Next.
Dispatching == call # NoCall /\ call.dispatched /\ Next

ServerInit == Idle /\ others = NoOthers /\ call = NoCall

ServerNext ==
  \/ \E d \in DnsParams : GET(d)
  \/ \E ct \in RequestContentTypes, len \in BodyLengths : POST(ct, len)
  \/ OPTIONS
  \/ Dispatching

ServerSpec == ServerInit /\ [][ServerNext]_vars

\* The dns parameter matches ^[A-Za-z0-9_-]+$.
MatchesBase64Url(d) ==
  /\ d.present /\ d.value # << >>
  /\ \A i \in DOMAIN d.value :
       d.value[i] \in { "A", "z", "0", "_", "-" }

\* C11: a GET whose dns parameter is missing or does not match gets 400, a
\* POST whose content type is present and does not contain
\* application/dns-message gets 415, a POST (past that test) with an empty
\* body gets 400, OPTIONS gets 204; none of them reaches the dispatcher:
\* nothing is scheduled or launched and the table is untouched.  A POST
\* without content type and with a body is dispatched.
C11_RejectsStayOut ==
  call # NoCall =>
    LET badType == call.ct # << >> /\ DNS_MESSAGE \notin
                     { call.ct[i] : i \in DOMAIN call.ct }
        Expected ==
          IF call.fn = "OPTIONS" THEN 204
          ELSE IF call.fn = "GET"
               THEN (IF MatchesBase64Url(call.dns) THEN 0 ELSE 400)
               ELSE IF badType THEN 415
               ELSE IF call.body = 0 THEN 400 ELSE 0
    IN  /\ call.status = Expected
        /\ call.dispatched = (Expected = 0)
        /\ ~call.dispatched =>
             /\ N = 0 /\ Launched = {}
             /\ regionalLatencyMs = << >>
             /\ response = None

\* C11 witness: a GET whose dns parameter holds a character outside the
\* alphabet was answered 400 and nothing was dispatched.
C11_Witness ==
  /\ call # NoCall
  /\ call.fn = "GET"
  /\ call.dns.present /\ call.dns.value # << >>
  /\ call.status = 400
  /\ ~call.dispatched /\ N = 0
====
